---- MODULE Spec2Model ----
(***************************************************************************)
(* Model of the weekly Meta-Ads report pipeline:                           *)
(*   scripts/run_weekly_report.py  (orchestrator, retry wrapper, alerting) *)
(*   scripts/fetch_meta_ads.py, fetch_notion_leads.py, process_data.py     *)
(*   scripts/send_to_notion.py     (lookup-then-write publisher)           *)
(* Several invocations of the orchestrator (Procs) share the data/         *)
(* directories and the destination Notion database.                        *)
(***************************************************************************)
EXTENDS Integers, Sequences, FiniteSets, TLC

\* ---------------------------------------------------------------- bounds
\* total number of pipeline invocations started in one behaviour
MaxRuns == 2
\* the calendar: the clock starts on StartDay and stops advancing at MaxDay
MaxDay == 13
\* the lead query of FetchConversions returns 0..MaxLeads records
MaxLeads == 1
\* longest `actions` / `action_values` list of a campaign record
MaxActions == 2
\* most campaign records in a raw data file
MaxCampaigns == 2
\* most segments in one audience dimension of a raw data file
MaxSegments == 2

\* ------------------------------------------------------ program constants
\* retry_on_failure(func, max_retries=3, ...)
max_retries == 3
\* get_date_range(days=7) and timedelta(days=7) of step2_fetch_notion_leads
days == 7
\* calculate_summary: avg_lead_value = 500 (dollars per lead)
avg_lead_value == 500

\* two orchestrator processes that may run side by side
Procs == {"p1", "p2"}
\* first day of the modelled calendar (day ordinals; a week is 7 ordinals)
StartDay == days + 5
DaysPerWeek == days
WeekOf(d) == d \div DaysPerWeek

None == "None"
\* check_existing_report's `None` result; page ids are the positions 1, 2, ...
NoPage == 0

\* the four steps of main(), in the order of its statements
StepNames == <<"FetchAds", "FetchConversions", "Process", "Publish">>
NumSteps == Len(StepNames)
Steps == 1..NumSteps

\* ------------------------------------------------------------ environment
RequiredVars ==
    {"META_ACCESS_TOKEN", "META_AD_ACCOUNT_ID", "NOTION_TOKEN", "NOTION_PARENT_PAGE_ID"}
AllVars ==
    RequiredVars \cup {"META_APP_ID", "META_APP_SECRET", "NOTION_LEADS_DATABASE_ID",
                       "SLACK_WEBHOOK_URL"}
\* the configurations the model starts from
EnvChoices ==
    { AllVars,
      AllVars \ {"SLACK_WEBHOOK_URL"},
      AllVars \ {"NOTION_PARENT_PAGE_ID"},
      AllVars \ {"NOTION_LEADS_DATABASE_ID"} }

\* the variables each script's main() refuses to run without:
\* initialize_api and fetch_meta_ads.main, fetch_leads_from_notion,
\* (process_data reads none), send_to_notion.main
step_vars(s) ==
    CASE s = 1 -> {"META_APP_ID", "META_APP_SECRET", "META_ACCESS_TOKEN", "META_AD_ACCOUNT_ID"}
      [] s = 2 -> {"NOTION_TOKEN", "NOTION_LEADS_DATABASE_ID"}
      [] s = 3 -> {}
      [] s = 4 -> {"NOTION_TOKEN"}
\* validate_environment: the required variables that are not set
missing_vars(e) == RequiredVars \ e

\* ------------------------------------------------------------ exceptions
\* Exception classes that matter: an ordinary Exception subclass, and
\* SystemExit, which derives from BaseException only.
\* what an `except Exception` clause catches
CaughtByExceptException(e) == e = "Exception"
\* the scripts' main(): `except Exception as e: ...; sys.exit(1)`
ScriptMainReraises(e) == e
ScriptMainExcept(e) == IF CaughtByExceptException(e) THEN "SystemExit" ELSE e

\* retry_on_failure's except clause, for exception e raised by attempt a:
\* an exception the clause does not catch propagates; a caught one is
\* followed by the sleep, or re-raised after the last attempt
RetrySleepsAfterLast(a, n, e) ==
    IF ~CaughtByExceptException(e) THEN "propagate"
    ELSE IF a <= n THEN "sleep" ELSE "raise"
retry_except(a, n, e) ==
    IF ~CaughtByExceptException(e) THEN "propagate"
    ELSE IF a < n THEN "sleep" ELSE "raise"
\* the orchestrator calls it with the default max_retries
RetryNeverGivesUp(a, e) == IF CaughtByExceptException(e) THEN "sleep" ELSE "propagate"
retry_on_failure(a, e) == retry_except(a, max_retries, e)

\* main(): where control goes when step s has returned normally
MainNextSkips(s) ==
    IF s = NumSteps THEN [pc |-> "notify_ok", step |-> s]
    ELSE [pc |-> "enter", step |-> IF s = 1 THEN 3 ELSE s + 1]
main_next(s) ==
    IF s = NumSteps THEN [pc |-> "notify_ok", step |-> s]
    ELSE [pc |-> "enter", step |-> s + 1]
\* main(): where control goes when exception e leaves the retry wrapper of
\* step s; what `except Exception` does not catch ends the process
MainExceptGoesOn(s, e) ==
    IF s = NumSteps THEN [pc |-> "notify_ok", step |-> s]
    ELSE [pc |-> "enter", step |-> s + 1]
main_except(s, e) ==
    IF CaughtByExceptException(e) THEN [pc |-> "notify_error", step |-> s]
    ELSE [pc |-> "done", step |-> s]

\* ------------------------------------------------------------ dates, keys
\* get_date_range(days) evaluated on day d
get_date_range(d) == [since |-> d - days, until |-> d]
\* f"Week of {date_range['since']}"
week_title(dr) == <<"Week of", dr.since>>

\* ------------------------------------------------------------------ disk
\* A directory is the sequence of its matching files in increasing
\* modification time; writing a file (re)places it at the end.
RECURSIVE RemoveName(_, _)
RemoveName(dir, name) ==
    IF dir = <<>> THEN <<>>
    ELSE IF Head(dir).name = name THEN RemoveName(Tail(dir), name)
    ELSE <<Head(dir)>> \o RemoveName(Tail(dir), name)
WriteFile(dir, name, data) == Append(RemoveName(dir, name), [name |-> name, data |-> data])
\* max(json_files, key=lambda p: p.stat().st_mtime)
OldestFile(dir) == dir[1].data
LatestFile(dir) == dir[Len(dir)].data
\* what the get_latest_* functions raise when the glob matches nothing
FileNotFoundError == [error |-> "FileNotFoundError"]
\* process_data.get_latest_raw_data
GetLatestRawOrEmpty(dir) ==
    IF dir = <<>> THEN [date_range |-> [since |-> 0, until |-> 0]] ELSE LatestFile(dir)
get_latest_raw_data(dir) == IF dir = <<>> THEN FileNotFoundError ELSE LatestFile(dir)
\* process_data.get_latest_notion_leads: no file counts as no leads
get_latest_notion_leads(dir) == IF dir = <<>> THEN [total_leads |-> 0] ELSE LatestFile(dir)
\* send_to_notion.get_latest_processed_data
get_latest_processed_data(dir) == IF dir = <<>> THEN FileNotFoundError ELSE LatestFile(dir)

\* ------------------------------------------------------------- publisher
\* create_page_properties(data)
TitleOfUntil(dr) == <<"Week of", dr.until>>
\* its own `week_title = f"Week of {date_range['since']}"`
properties_title(dr) == <<"Week of", dr.since>>
create_page_properties(data) ==
    [title |-> properties_title(data.date_range),
     week  |-> data.date_range,
     total_conversions |-> data.total_conversions]
\* create_page_content(data): the block set of one report
create_page_content(data) == <<[conversions |-> data.total_conversions]>>

\* the documents of the database whose title equals t, as indices
Matching(st, t) == {i \in 1..Len(st) : st[i].title = t}
CountKey(st, t) == Cardinality(Matching(st, t))
\* check_existing_report: results[0]['id'] if results else None
\* (the store returns the matching documents in creation order)
LookupFindsNothing(st, dr) == NoPage
LookupIgnoresTitle(st, dr) == IF st = <<>> THEN NoPage ELSE 1
check_existing_report(st, dr) ==
    LET m == Matching(st, week_title(dr)) IN
    IF m = {} THEN NoPage ELSE CHOOSE i \in m : \A j \in m : i <= j

\* notion.pages.create(parent, properties, children)
PagesCreateUnlessPresent(st, props, children) ==
    IF Matching(st, props.title) # {} THEN st
    ELSE Append(st, [title |-> props.title, properties |-> props, children |-> children])
pages_create(st, props, children) ==
    Append(st, [title |-> props.title, properties |-> props, children |-> children])
\* notion.pages.update(page_id, properties)
PagesUpdateAllOfTitle(st, id, props) ==
    [i \in 1..Len(st) |->
        IF st[i].title = st[id].title
        THEN [st[i] EXCEPT !.title = props.title, !.properties = props] ELSE st[i]]
PagesUpdateResetsPage(st, id, props) ==
    [st EXCEPT ![id] = [title |-> props.title, properties |-> props, children |-> <<>>]]
pages_update(st, id, props) ==
    [st EXCEPT ![id] = [@ EXCEPT !.title = props.title, !.properties = props]]
\* notion.blocks.children.append(block_id, children)
ChildrenReplace(st, id, children) == [st EXCEPT ![id].children = children]
children_append(st, id, children) == [st EXCEPT ![id].children = @ \o children]

\* ------------------------------------------------- values of the raw data
\* A JSON value as Python holds it: kind is its type and v its number, the
\* integer itself for "int" and "intstr" (a string of digits), hundredths
\* for "float" and "decstr" (a string with a decimal point); "absent" is a
\* key the mapping does not have
Val(k, n) == [kind |-> k, v |-> n]
\* dict.get(key, 0)
Get(x) == IF x.kind = "absent" THEN Val("int", 0) ELSE x
\* Python's truth value of x
Truthy(x) ==
    /\ x.kind \notin {"None", "empty"}
    /\ x.kind \in {"int", "float"} => x.v # 0
\* int(x) of a float given in hundredths: towards zero
Trunc(h) == IF h >= 0 THEN h \div 100 ELSE -((-h) \div 100)

\* process_data.safe_int; int() raises ValueError for "12.5" and for text,
\* TypeError for a list
safe_int(value, default) ==
    IF ~Truthy(value) THEN default
    ELSE CASE value.kind = "int" -> value.v
           [] value.kind = "float" -> Trunc(value.v)
           [] value.kind = "intstr" -> value.v
           [] OTHER -> default
\* process_data.safe_float, in hundredths (as is its default)
safe_float(value, default) ==
    IF ~Truthy(value) THEN default
    ELSE CASE value.kind \in {"int", "intstr"} -> value.v * 100
           [] value.kind \in {"float", "decstr"} -> value.v
           [] OTHER -> default

\* An `actions` field: kind "list" with its entries, or "None", "absent",
\* "notlist" (a truthy value that is no list).  An entry is a mapping with
\* an action_type and a value, or something else ("notmap": a string, None)
Actions(k, xs) == [kind |-> k, items |-> xs]
Entry(k, t, x) == [kind |-> k, action_type |-> t, value |-> x]
\* the loop `for action in actions: if action.get('action_type') == ...`:
\* .get on an entry that is no mapping raises AttributeError
RECURSIVE FirstMatch(_, _)
FirstMatch(items, action_type) ==
    IF items = <<>> THEN [at |-> "end", value |-> Val("None", 0)]
    ELSE IF Head(items).kind # "map" THEN [at |-> "raise", value |-> Val("None", 0)]
    ELSE IF Head(items).action_type = action_type
         THEN [at |-> "match", value |-> Get(Head(items).value)]
    ELSE FirstMatch(Tail(items), action_type)
\* what a call gives: a value, or the exception it raises
Ok(x) == [exc |-> None, v |-> x]
Raise(e) == [exc |-> e, v |-> 0]
\* process_data.extract_actions
extract_actions(actions, action_type) ==
    IF actions.kind # "list" \/ actions.items = <<>> THEN Ok(0)
    ELSE LET m == FirstMatch(actions.items, action_type)
         IN CASE m.at = "raise" -> Raise("AttributeError")
              [] m.at = "match" -> Ok(safe_int(m.value, 0))
              [] OTHER -> Ok(0)
\* process_data.extract_action_values (money, in hundredths)
extract_action_values(action_values, action_type) ==
    IF action_values.kind # "list" \/ action_values.items = <<>> THEN Ok(0)
    ELSE LET m == FirstMatch(action_values.items, action_type)
         IN CASE m.at = "raise" -> Raise("AttributeError")
              [] m.at = "match" -> Ok(safe_float(m.value, 0))
              [] OTHER -> Ok(0)

\* round(n / d, 2) for n, d in units that make the quotient hundredths
\* (d > 0): the nearest integer, a tie going to the even one
RoundDiv(n, d) ==
    LET q == n \div d
        r == n - q * d
    IN IF 2 * r < d THEN q
       ELSE IF 2 * r > d THEN q + 1
       ELSE IF q % 2 = 0 THEN q ELSE q + 1
\* process_data.calculate_metrics; money and ratios in hundredths
calculate_metrics(campaign) ==
    LET impressions == safe_int(Get(campaign.impressions), 0)
        clicks == safe_int(Get(campaign.clicks), 0)
        spend == safe_float(Get(campaign.spend), 0)
        purchase == extract_actions(campaign.actions, "purchase")
        lead == extract_actions(campaign.actions, "lead")
        add_to_cart == extract_actions(campaign.actions, "add_to_cart")
        link_click == extract_actions(campaign.actions, "link_click")
        purchase_value == extract_action_values(campaign.action_values, "purchase")
        total_conversion_value ==
            extract_action_values(campaign.action_values, "omni_purchase")
        calls == {purchase, lead, add_to_cart, link_click, purchase_value,
                  total_conversion_value}
        total_conversions == purchase.v + lead.v
    IN IF \E r \in calls : r.exc # None THEN Raise("AttributeError")
       ELSE Ok([campaign_id |-> campaign.campaign_id,
                impressions |-> impressions,
                clicks |-> clicks,
                spend |-> spend,
                cpc |-> IF clicks > 0 THEN RoundDiv(spend, clicks) ELSE 0,
                ctr |-> IF impressions > 0
                        THEN RoundDiv(clicks * 100 * 100, impressions) ELSE 0,
                conversions |-> [purchase |-> purchase.v, lead |-> lead.v,
                                 add_to_cart |-> add_to_cart.v,
                                 link_click |-> link_click.v,
                                 total |-> total_conversions],
                conversion_value |-> [purchase |-> purchase_value.v,
                                      total |-> total_conversion_value.v],
                cpa |-> IF total_conversions > 0
                        THEN RoundDiv(spend, total_conversions) ELSE 0,
                roas |-> IF spend > 0
                         THEN RoundDiv(total_conversion_value.v * 100, spend) ELSE 0])

\* list.sort(key=lambda x: x['spend'], reverse=True): a stable sort, so of
\* two records with the same spend the one met first stays first
BeforeStrict(a, b) == a.spend > b.spend
Before(a, b) == a.spend >= b.spend
RECURSIVE Insert(_, _)
Insert(sorted, x) ==
    IF sorted = <<>> THEN <<x>>
    ELSE IF Before(Head(sorted), x) THEN <<Head(sorted)>> \o Insert(Tail(sorted), x)
    ELSE <<x>> \o sorted
RECURSIVE SortBySpend(_)
SortBySpend(xs) ==
    IF xs = <<>> THEN <<>>
    ELSE Insert(SortBySpend(SubSeq(xs, 1, Len(xs) - 1)), xs[Len(xs)])
\* process_data.process_campaigns
process_campaigns(campaigns) ==
    LET metrics == [i \in 1..Len(campaigns) |-> calculate_metrics(campaigns[i])]
    IN IF \E i \in 1..Len(campaigns) : metrics[i].exc # None
       THEN Raise("AttributeError")
       ELSE Ok(SortBySpend([i \in 1..Len(campaigns) |-> metrics[i].v]))
\* one dimension of process_data.process_audience_data; label is the
\* segment's 'age', 'gender' or 'region', 'Unknown' when the key is absent
process_segments(segments) ==
    SortBySpend([i \in 1..Len(segments) |->
                    [label |-> IF segments[i].label = None THEN "Unknown"
                               ELSE segments[i].label,
                     impressions |-> safe_int(Get(segments[i].impressions), 0),
                     clicks |-> safe_int(Get(segments[i].clicks), 0),
                     spend |-> safe_float(Get(segments[i].spend), 0)]])
process_audience_data(audience_data) ==
    [age |-> process_segments(audience_data.age),
     gender |-> process_segments(audience_data.gender),
     region |-> process_segments(audience_data.region)]
\* sum(c[key] for c in xs)
RECURSIVE Sum(_, _)
Sum(xs, key) == IF xs = <<>> THEN 0 ELSE Head(xs)[key] + Sum(Tail(xs), key)
\* calculate_summary's `total_conversions = notion_leads_count`
SumOfCampaignConversions(processed_campaigns, notion_leads_count) ==
    Sum([i \in 1..Len(processed_campaigns) |-> processed_campaigns[i].conversions],
        "total")
reconciled_conversions(processed_campaigns, notion_leads_count) == notion_leads_count
\* process_data.calculate_summary; money and ratios in hundredths
calculate_summary(processed_campaigns, notion_leads_count) ==
    LET total_spend == Sum(processed_campaigns, "spend")
        total_impressions == Sum(processed_campaigns, "impressions")
        total_clicks == Sum(processed_campaigns, "clicks")
        total_conversions == reconciled_conversions(processed_campaigns, notion_leads_count)
        total_conversion_value == total_conversions * avg_lead_value * 100
    IN [total_spend |-> total_spend,
        total_impressions |-> total_impressions,
        total_clicks |-> total_clicks,
        total_conversions |-> total_conversions,
        total_conversion_value |-> total_conversion_value,
        avg_cpc |-> IF total_clicks > 0 THEN RoundDiv(total_spend, total_clicks) ELSE 0,
        avg_ctr |-> IF total_impressions > 0
                    THEN RoundDiv(total_clicks * 100 * 100, total_impressions) ELSE 0,
        avg_cpa |-> IF total_conversions > 0
                    THEN RoundDiv(total_spend, total_conversions) ELSE 0,
        roas |-> IF total_spend > 0
                 THEN RoundDiv(total_conversion_value * 100, total_spend) ELSE 0,
        campaign_count |-> Len(processed_campaigns)]

Abs(n) == IF n >= 0 THEN n ELSE -n
\* send_to_notion.create_insights_blocks: the insights appended, in order,
\* each named by its rule; percentages and dollars in hundredths.  The
\* shares divide by summary['total_spend'] and by max(male, female) spend
\* with no guard (ZeroDivisionError)
Max(a, b) == IF a >= b THEN a ELSE b
create_insights_blocks(data) ==
    LET summary == data.summary
        audience == data.audience
        avg_ctr == summary.avg_ctr
        avg_cpa == summary.avg_cpa
        total_conversions == summary.total_conversions
        ctr == IF avg_ctr > 5 * 100 THEN <<"ctr_high">>
               ELSE IF avg_ctr < 1 * 100 THEN <<"ctr_low">> ELSE <<>>
        cpa == IF avg_cpa > 100 * 100 /\ total_conversions > 0 THEN <<"cpa_high">>
               ELSE IF total_conversions = 0 THEN <<"no_conversions">> ELSE <<>>
        age_segments == SortBySpend(audience.age)
        age == IF Len(age_segments) > 0 THEN <<"age_concentration">> ELSE <<>>
        gender_segments == audience.gender
        male == SelectSeq(gender_segments, LAMBDA g : g.label = "male")
        female == SelectSeq(gender_segments, LAMBDA g : g.label = "female")
        both == Len(gender_segments) >= 2 /\ male # <<>> /\ female # <<>>
        top_gender == Max(Head(male).spend, Head(female).spend)
        gender == IF both /\ top_gender # 0
                     /\ Abs(Head(male).spend - Head(female).spend) * 100 > 30 * top_gender
                  THEN <<"gender_skew">> ELSE <<>>
        region_segments == SortBySpend(audience.region)
        region == IF Len(region_segments) > 0 /\ summary.total_spend # 0
                     /\ region_segments[1].spend * 100 > 50 * summary.total_spend
                  THEN <<"region_concentration">> ELSE <<>>
    IN IF \/ Len(age_segments) > 0 /\ summary.total_spend = 0
          \/ both /\ top_gender = 0
          \/ Len(region_segments) > 0 /\ summary.total_spend = 0
       THEN Raise("ZeroDivisionError")
       ELSE Ok(ctr \o cpa \o age \o gender \o region)

\* ---------------------------------------------- the page content blocks
\* A block is its type, its text and, for a table, its table_row children;
\* a table row is its first cell and the numbers of its other cells (money
\* and ratios in hundredths, as `:.2f` prints them).
Heading(type, text) == [type |-> type, text |-> text, rows |-> <<>>]
Table(rows) == [type |-> "table", text |-> "", rows |-> rows]
HeaderRow(first) == [header |-> TRUE, key |-> first, cells |-> <<>>]
Row(first, cells) == [header |-> FALSE, key |-> first, cells |-> cells]
\* create_summary_blocks(summary)
create_summary_blocks(summary) ==
    <<Heading("heading_2", "summary"),
      Table(<<HeaderRow("metric"),
              Row("total_spend", <<summary.total_spend>>),
              Row("total_impressions", <<summary.total_impressions>>),
              Row("total_clicks", <<summary.total_clicks>>),
              Row("avg_cpc", <<summary.avg_cpc>>),
              Row("avg_ctr", <<summary.avg_ctr>>),
              Row("total_conversions", <<summary.total_conversions>>),
              Row("avg_cpa", <<summary.avg_cpa>>)>>)>>
\* `top_campaigns = campaigns[:10]`
AllCampaigns(campaigns) == campaigns
top_campaigns(campaigns) ==
    SubSeq(campaigns, 1, IF Len(campaigns) < 10 THEN Len(campaigns) ELSE 10)
\* create_campaign_table_blocks(campaigns)
create_campaign_table_blocks(campaigns) ==
    LET top == top_campaigns(campaigns)
    IN <<Heading("heading_2", "campaigns"),
         Table(<<HeaderRow("campaign_name")>> \o
               [i \in 1..Len(top) |->
                   Row(top[i].campaign_name,
                       <<top[i].spend, top[i].impressions, top[i].clicks, top[i].cpc,
                         top[i].ctr, top[i].conversions.total, top[i].cpa>>)])>>
\* the row label of a gender segment: "male" and "female" are shown in
\* Korean (written here in Latin letters), any other value as it is
gender_label(g) ==
    CASE g = "male" -> "namseong" [] g = "female" -> "yeoseong"
      [] g = "unknown" -> "mibunryu" [] OTHER -> g
SegmentRows(first, segments) ==
    <<HeaderRow(first)>> \o
    [i \in 1..Len(segments) |->
        Row(segments[i].label,
            <<segments[i].spend, segments[i].impressions, segments[i].clicks>>)]
GenderLabelled(segments) ==
    [i \in 1..Len(segments) |-> [segments[i] EXCEPT !.label = gender_label(@)]]
\* create_audience_blocks(audience)
create_audience_blocks(audience) ==
    <<Heading("heading_2", "audience"),
      Heading("heading_3", "age"), Table(SegmentRows("age", audience.age)),
      Heading("heading_3", "gender"),
      Table(SegmentRows("gender", GenderLabelled(audience.gender))),
      Heading("heading_3", "region"),
      Table(SegmentRows("region", audience.region))>>
\* the blocks create_insights_blocks returns: its heading and one toggle for
\* each insight
insights_section(insights) ==
    <<Heading("heading_2", "insights")>> \o
    [i \in 1..Len(insights) |-> Heading("toggle", insights[i])]
\* create_page_content(data) with every block written out
page_blocks(data) ==
    LET insights == create_insights_blocks(data)
    IN IF insights.exc # None THEN insights
       ELSE Ok(create_summary_blocks(data.summary)
               \o create_campaign_table_blocks(data.campaigns)
               \o create_audience_blocks(data.audience)
               \o insights_section(insights.v))

\* ------------------------------------------------------------------ state
VARIABLES
    today,       \* the current date (day ordinal)
    env,         \* the environment variables that are set
    rawFiles,    \* data/raw/ads_data_*.json
    leadsFiles,  \* data/raw/notion_leads_*.json
    procFiles,   \* data/processed/weekly_report_*.json
    store,       \* the Notion report database: sequence of documents
    pc,          \* per process: position in run_weekly_report.main
    step,        \* per process: the step retry_on_failure is running (0: none)
    attempt,     \* per process: retry_on_failure's loop variable
    local,       \* per process: date_range / data / existing_page_id locals
    exitStatus,  \* per process: exit status of the finished run, or None
    hist,        \* per process: record of what the current run has done
    runs,        \* number of runs started
    overlap,     \* two create_or_update_page invocations were in progress at once
    runOverlap,  \* two pipeline runs were in progress at once
    pubLog,      \* the completed create_or_update_page invocations, in order
    serial,      \* TRUE: an invocation starts only when no other one is running
    input,       \* the arguments of a function of process_data / send_to_notion
    output       \* what the function applied to them has returned or raised

vars == <<today, env, rawFiles, leadsFiles, procFiles, store, pc, step, attempt,
          local, exitStatus, hist, runs, overlap, runOverlap, pubLog, serial,
          input, output>>

diskVars == <<rawFiles, leadsFiles, procFiles>>
\* what the steps of the pipeline never touch
frame == <<serial, input, output>>
ghostVars == <<overlap, runOverlap, pubLog, frame>>
\* no function is under study
NoCall == [fn |-> "none"]

NoLocal == [date_range |-> None, data |-> None, existing |-> NoPage, ops |-> <<>>]
NoHist ==
    [calls     |-> 0,                     \* calls of the current step function
     attempted |-> {},                    \* steps whose function was called
     completed |-> {},                    \* steps that returned normally
     active    |-> {},                    \* steps entered and not yet left
     sleeps    |-> 0,                     \* sleeps since the current step began
     mains     |-> 0,                     \* entries into the current step's script main()
     failedStep |-> 0,                    \* the step whose exception ended the run
     failedIn  |-> None,                  \* "step" (outside the script) or "main"
     failedExc |-> None,                  \* the class of that exception
     notifyCalls |-> 0,                   \* send_slack_notification calls
     posted    |-> <<>>,                  \* is_error of each delivered message
     writes    |-> 0,                     \* create/update/append calls that succeeded
     startDay  |-> None]

\* pc values inside create_or_update_page
InPublisher == {"lookup", "update", "append", "create"}
Running(p) == pc[p] \notin {"idle", "done"}

InitState ==
    /\ today = StartDay
    /\ rawFiles = <<>>
    /\ leadsFiles = <<>>
    /\ procFiles = <<>>
    /\ store = <<>>
    /\ pc = [p \in Procs |-> "idle"]
    /\ step = [p \in Procs |-> 0]
    /\ attempt = [p \in Procs |-> 0]
    /\ local = [p \in Procs |-> NoLocal]
    /\ exitStatus = [p \in Procs |-> None]
    /\ hist = [p \in Procs |-> NoHist]
    /\ runs = 0
    /\ overlap = FALSE
    /\ runOverlap = FALSE
    /\ pubLog = <<>>

\* invocations follow one another, under any of the configurations
InitSerial ==
    InitState /\ serial = TRUE /\ env \in EnvChoices /\ input = NoCall /\ output = NoCall
\* invocations may also overlap (a manual run during the scheduled one)
Init ==
    \/ InitSerial
    \/ InitState /\ serial = FALSE /\ env = AllVars /\ input = NoCall /\ output = NoCall

\* the date changes while the processes run or sleep
Tick ==
    /\ today < MaxDay
    /\ today' = today + 1
    /\ UNCHANGED <<env, diskVars, store, pc, step, attempt, local, exitStatus, hist,
                   runs, ghostVars>>

\* `sys.exit(main())` is started; in the serial schedule a process that has
\* finished may be started again, otherwise each process is one invocation
Start(p) ==
    /\ pc[p] = "idle" \/ (serial /\ pc[p] = "done")
    /\ runs < MaxRuns
    /\ serial => \A q \in Procs \ {p} : ~Running(q)
    \* the processes are named in the order of their first start
    /\ p = "p1" \/ pc["p1"] # "idle"
    /\ runs' = runs + 1
    /\ pc' = [pc EXCEPT ![p] = "validate"]
    /\ step' = [step EXCEPT ![p] = 0]
    /\ attempt' = [attempt EXCEPT ![p] = 0]
    /\ local' = [local EXCEPT ![p] = NoLocal]
    /\ exitStatus' = [exitStatus EXCEPT ![p] = None]
    /\ hist' = [hist EXCEPT ![p] = [NoHist EXCEPT !.startDay = today]]
    /\ runOverlap' = (runOverlap \/ \E q \in Procs \ {p} : Running(q))
    /\ UNCHANGED <<today, env, diskVars, store, overlap, pubLog, frame>>

\* An exception e leaves the step function func() called by retry_on_failure
\* in main(): retry_on_failure's except clause, then main's except clause.
\* h is the run record after the failed call.
StepRaises(p, e, h, where) ==
    LET o == retry_on_failure(attempt[p], e)
        g == main_except(step[p], e)
        hf == [h EXCEPT !.failedStep = step[p], !.failedIn = where, !.failedExc = e,
                       !.active = {}]
    IN
    /\ IF o = "sleep"
       THEN \* time.sleep(retry_interval), then the next iteration of the loop
            /\ pc' = [pc EXCEPT ![p] = "enter"]
            /\ attempt' = [attempt EXCEPT ![p] = @ + 1]
            /\ hist' = [hist EXCEPT ![p] = [h EXCEPT !.active = {}, !.sleeps = @ + 1]]
            /\ UNCHANGED <<step, exitStatus>>
       ELSE /\ pc' = [pc EXCEPT ![p] = g.pc]
            /\ step' = [step EXCEPT ![p] = g.step]
            /\ attempt' = [attempt EXCEPT ![p] = IF g.pc = "enter" THEN 1 ELSE @]
            /\ hist' = [hist EXCEPT ![p] = hf]
            \* an uncaught SystemExit(1) ends the process with status 1
            /\ exitStatus' = [exitStatus EXCEPT ![p] = IF g.pc = "done" THEN 1 ELSE @]
    /\ local' = [local EXCEPT ![p] = NoLocal]

\* The step function returns normally: retry_on_failure returns its result
\* and main() goes on to its next statement.
StepReturns(p, h) ==
    LET g == main_next(step[p]) IN
    /\ hist' = [hist EXCEPT ![p] = [h EXCEPT !.completed = @ \cup {step[p]}, !.active = {}]]
    /\ pc' = [pc EXCEPT ![p] = g.pc]
    /\ step' = [step EXCEPT ![p] = g.step]
    /\ attempt' = [attempt EXCEPT ![p] = IF g.pc = "enter" THEN 1 ELSE @]
    /\ local' = [local EXCEPT ![p] = NoLocal]
    /\ UNCHANGED exitStatus

\* validate_environment() at the top of main()'s try block
Validate(p) ==
    /\ pc[p] = "validate"
    /\ IF missing_vars(env) = {}
       THEN /\ pc' = [pc EXCEPT ![p] = "enter"]
            /\ step' = [step EXCEPT ![p] = 1]
            /\ attempt' = [attempt EXCEPT ![p] = 1]
       ELSE \* ValueError, caught by main's `except Exception`
            /\ pc' = [pc EXCEPT ![p] = "notify_error"]
            /\ UNCHANGED <<step, attempt>>
    /\ UNCHANGED <<today, env, diskVars, store, local, exitStatus, hist, runs, ghostVars>>

\* retry_on_failure calls func(): the step function logs, imports its script
\* (step 2 also computes its date range) and is about to call the script's main
EnterHist(p) ==
    [hist[p] EXCEPT !.calls = IF step[p] \in hist[p].attempted THEN @ + 1 ELSE 1,
                    !.sleeps = IF step[p] \in hist[p].attempted THEN @ ELSE 0,
                    !.mains = IF step[p] \in hist[p].attempted THEN @ ELSE 0,
                    !.attempted = @ \cup {step[p]},
                    !.active = @ \cup {step[p]}]

StepEnter(p) ==
    /\ pc[p] = "enter"
    /\ pc' = [pc EXCEPT ![p] = "main"]
    /\ hist' = [hist EXCEPT ![p] = [EnterHist(p) EXCEPT !.mains = @ + 1]]
    /\ local' = [local EXCEPT ![p].date_range =
                    IF step[p] = 2 THEN get_date_range(today) ELSE None]
    /\ UNCHANGED <<today, env, diskVars, store, step, attempt, exitStatus, runs, ghostVars>>

\* the import inside the step function fails (ImportError): an ordinary
\* exception raised outside the script's own try block
StepImportFails(p) ==
    /\ pc[p] = "enter"
    /\ StepRaises(p, "Exception", EnterHist(p), "step")
    /\ UNCHANGED <<today, env, diskVars, store, runs, ghostVars>>

\* any exception inside a script's main(): its except clause calls sys.exit(1)
ScriptFails(p) ==
    /\ pc[p] \in {"main"} \cup InPublisher
    /\ StepRaises(p, ScriptMainExcept("Exception"), hist[p], "main")
    /\ UNCHANGED <<today, env, diskVars, store, runs, ghostVars>>

\* fetch_meta_ads.main() succeeds
FetchAds(p) ==
    /\ pc[p] = "main" /\ step[p] = 1
    /\ step_vars(1) \subseteq env
    /\ rawFiles' = WriteFile(rawFiles, today, [date_range |-> get_date_range(today)])
    /\ StepReturns(p, hist[p])
    /\ UNCHANGED <<today, env, leadsFiles, procFiles, store, runs, ghostVars>>

\* fetch_notion_leads.main(date_range) succeeds with n lead records
FetchConversions(p) ==
    /\ pc[p] = "main" /\ step[p] = 2
    /\ step_vars(2) \subseteq env
    /\ \E n \in 0..MaxLeads :
          \* (the file's date_range and leads fields are never read back)
          leadsFiles' = WriteFile(leadsFiles, today, [total_leads |-> n])
    /\ StepReturns(p, hist[p])
    /\ UNCHANGED <<today, env, rawFiles, procFiles, store, runs, ghostVars>>

\* process_data.main() succeeds
Process(p) ==
    /\ pc[p] = "main" /\ step[p] = 3
    /\ get_latest_raw_data(rawFiles) # FileNotFoundError
    /\ LET raw_data == get_latest_raw_data(rawFiles)
           notion_leads_count == get_latest_notion_leads(leadsFiles).total_leads
       IN procFiles' = WriteFile(procFiles, today,
                                 [date_range |-> raw_data.date_range,
                                  total_conversions |-> notion_leads_count])
    /\ StepReturns(p, hist[p])
    /\ UNCHANGED <<today, env, rawFiles, leadsFiles, store, runs, ghostVars>>

\* send_to_notion.main() up to the call of create_or_update_page: token check,
\* load_config, get_latest_processed_data
PublishLoad(p) ==
    /\ pc[p] = "main" /\ step[p] = 4
    /\ step_vars(4) \subseteq env
    /\ get_latest_processed_data(procFiles) # FileNotFoundError
    /\ local' = [local EXCEPT ![p].data = get_latest_processed_data(procFiles)]
    /\ pc' = [pc EXCEPT ![p] = "lookup"]
    /\ overlap' = (overlap \/ \E q \in Procs \ {p} : pc[q] \in InPublisher)
    /\ UNCHANGED <<today, env, diskVars, store, step, attempt, exitStatus, hist, runs,
                   runOverlap, pubLog, frame>>

\* create_or_update_page: `if existing_page_id:` ... `else:`
AlwaysCreate(existing_page_id) == "create"
publish_branch(existing_page_id) ==
    IF existing_page_id # NoPage THEN "update" ELSE "create"

\* create_or_update_page: existing_page_id = check_existing_report(...)
Lookup(p) ==
    /\ pc[p] = "lookup"
    /\ LET id == check_existing_report(store, local[p].data.date_range) IN
       /\ local' = [local EXCEPT ![p].existing = id]
       /\ pc' = [pc EXCEPT ![p] = publish_branch(id)]
    /\ UNCHANGED <<today, env, diskVars, store, step, attempt, exitStatus, hist, runs,
                   ghostVars>>

PubEntry(p, branch, id) ==
    [proc |-> p, title |-> week_title(local[p].data.date_range), branch |-> branch,
     id |-> id, day |-> hist[p].startDay, leads |-> local[p].data.total_conversions]

\* update branch, first call: notion.pages.update
UpdateProps(p) ==
    /\ pc[p] = "update"
    /\ store' = pages_update(store, local[p].existing, create_page_properties(local[p].data))
    /\ pc' = [pc EXCEPT ![p] = "append"]
    /\ hist' = [hist EXCEPT ![p].writes = @ + 1]
    \* (ops: the write calls this invocation has issued)
    /\ local' = [local EXCEPT ![p].ops = Append(@, "update")]
    /\ UNCHANGED <<today, env, diskVars, step, attempt, exitStatus, runs, ghostVars>>

\* update branch, second call: notion.blocks.children.append; then the
\* script and the step return
AppendBlocks(p) ==
    /\ pc[p] = "append"
    /\ store' = children_append(store, local[p].existing, create_page_content(local[p].data))
    /\ pubLog' = Append(pubLog, PubEntry(p, "update", local[p].existing))
    /\ StepReturns(p, [hist[p] EXCEPT !.writes = @ + 1])
    /\ UNCHANGED <<today, env, diskVars, runs, overlap, runOverlap, frame>>

\* create branch: notion.pages.create; then the script and the step return
CreatePage(p) ==
    /\ pc[p] = "create"
    /\ store' = pages_create(store, create_page_properties(local[p].data),
                             create_page_content(local[p].data))
    /\ pubLog' = Append(pubLog, PubEntry(p, "create", Len(store')))
    /\ StepReturns(p, [hist[p] EXCEPT !.writes = @ + 1])
    /\ UNCHANGED <<today, env, diskVars, runs, overlap, runOverlap, frame>>

\* send_slack_notification(message, is_error): returns in every case;
\* without a webhook URL nothing is posted, a failed post is only logged
send_slack_notification(url_set, post_ok) ==
    IF ~url_set THEN "skipped" ELSE IF post_ok THEN "posted" ELSE "failed"
\* main(): `return 0` after the success notification, `return 1` after the
\* failure notification, whatever became of the notification
MainReturnNeedsPost(is_error, notified) ==
    IF is_error \/ notified # "posted" THEN 1 ELSE 0
main_return(is_error, notified) == IF is_error THEN 1 ELSE 0

\* send_slack_notification(message, is_error) followed by main's return:
\* without a webhook URL nothing is posted; otherwise the message is posted
Notify(p) ==
    /\ pc[p] \in {"notify_ok", "notify_error"}
    /\ LET is_error == (pc[p] = "notify_error")
           notified == send_slack_notification("SLACK_WEBHOOK_URL" \in env, TRUE) IN
       /\ hist' = [hist EXCEPT ![p].notifyCalls = @ + 1,
                               ![p].posted = IF notified = "posted"
                                             THEN Append(@, is_error) ELSE @]
       /\ exitStatus' = [exitStatus EXCEPT ![p] = main_return(is_error, notified)]
    /\ pc' = [pc EXCEPT ![p] = "done"]
    /\ UNCHANGED <<today, env, diskVars, store, step, attempt, local, runs, ghostVars>>

\* the post fails (non-200 status or a requests exception): logged only
NotifyFails(p) ==
    /\ pc[p] \in {"notify_ok", "notify_error"}
    /\ "SLACK_WEBHOOK_URL" \in env
    /\ hist' = [hist EXCEPT ![p].notifyCalls = @ + 1]
    /\ exitStatus' = [exitStatus EXCEPT ![p] =
                        main_return(pc[p] = "notify_error",
                                    send_slack_notification(TRUE, FALSE))]
    /\ pc' = [pc EXCEPT ![p] = "done"]
    /\ UNCHANGED <<today, env, diskVars, store, step, attempt, local, runs, ghostVars>>

Next ==
    \/ Tick
    \/ \E p \in Procs : Start(p)
    \/ \E p \in Procs : Validate(p)
    \/ \E p \in Procs : StepEnter(p)
    \/ \E p \in Procs : StepImportFails(p)
    \/ \E p \in Procs : ScriptFails(p)
    \/ \E p \in Procs : FetchAds(p)
    \/ \E p \in Procs : FetchConversions(p)
    \/ \E p \in Procs : Process(p)
    \/ \E p \in Procs : PublishLoad(p)
    \/ \E p \in Procs : Lookup(p)
    \/ \E p \in Procs : UpdateProps(p)
    \/ \E p \in Procs : AppendBlocks(p)
    \/ \E p \in Procs : CreatePage(p)
    \/ \E p \in Procs : Notify(p)
    \/ \E p \in Procs : NotifyFails(p)

\* the files of one of the data directories are removed from outside
\* (the directories are plain folders that nothing in the program protects);
\* a removal shows only when a script globs the directory, so it is taken
\* just before process_data or send_to_notion reads
ClearData ==
    /\ \E p \in Procs : pc[p] = "main" /\ step[p] \in {3, 4}
    /\ \/ rawFiles # <<>> /\ rawFiles' = <<>> /\ UNCHANGED <<leadsFiles, procFiles>>
       \/ leadsFiles # <<>> /\ leadsFiles' = <<>> /\ UNCHANGED <<rawFiles, procFiles>>
       \/ procFiles # <<>> /\ procFiles' = <<>> /\ UNCHANGED <<rawFiles, leadsFiles>>
    /\ UNCHANGED <<today, env, store, pc, step, attempt, local, exitStatus, hist, runs,
                   ghostVars>>

NextDisk == Next \/ ClearData

Spec == Init /\ [][Next]_vars
\* serial runs over data directories that may be emptied at any time
SpecDisk == InitSerial /\ [][NextDisk]_vars

\* ------------------------------------------- the functions of the scripts
\* One function is applied once to arguments drawn at the start; the
\* pipeline stands still.
pipeVars == <<today, env, diskVars, store, pc, step, attempt, local, exitStatus, hist,
              runs, overlap, runOverlap, pubLog, serial>>
InitCall(inputs) ==
    InitState /\ serial = TRUE /\ env = AllVars /\ input \in inputs /\ output = NoCall
Returns(f, r) ==
    /\ output.fn = "none"
    /\ output' = [fn |-> f, value |-> r]
    /\ UNCHANGED <<pipeVars, input>>

\* values a field of the insights export or of a hand-edited file may hold
RawValues ==
    {Val(k, 0) : k \in {"None", "empty", "text", "list"}}
        \cup {Val("int", n) : n \in {0, 5, 1000, -3}}
        \cup {Val("float", n) : n \in {0, 50, 1250, -250}}
        \cup {Val("intstr", n) : n \in {0, 50, 1000, -4}}
        \cup {Val("decstr", n) : n \in {1250, 10000, -500}}
Numeric(x) == x.kind \in {"int", "float", "intstr", "decstr"}
CoerceInputs == [value : RawValues, default : {0, 7}]

ApplySafeInt == Returns("safe_int", safe_int(input.value, input.default))
ApplySafeFloat == Returns("safe_float", safe_float(input.value, input.default * 100))
NextCoerce == ApplySafeInt \/ ApplySafeFloat
SpecCoerce == InitCall(CoerceInputs) /\ [][NextCoerce]_vars

\* sequences over S of length 0..n
SeqUpTo(S, n) == UNION {[1..k -> S] : k \in 0..n}
ActionTypes == {"lead", "purchase", "omni_purchase"}
ActionEntries ==
    {Entry("map", t, x) :
        t \in ActionTypes, x \in {Val("intstr", 5), Val("decstr", 1250), Val("text", 0)}}
        \cup {Entry("notmap", None, Val("None", 0))}
ActionFields ==
    {Actions("list", xs) : xs \in SeqUpTo(ActionEntries, MaxActions)}
        \cup {Actions(k, <<>>) : k \in {"None", "absent", "notlist"}}
ExtractInputs == [actions : ActionFields, action_type : ActionTypes]

ApplyExtractActions ==
    Returns("extract_actions", extract_actions(input.actions, input.action_type))
ApplyExtractActionValues ==
    Returns("extract_action_values",
            extract_action_values(input.actions, input.action_type))
NextExtract == ApplyExtractActions \/ ApplyExtractActionValues
SpecExtract == InitCall(ExtractInputs) /\ [][NextExtract]_vars

\* the `actions` / `action_values` fields of the campaign records studied
CountEntries ==
    {Entry("map", t, Val("intstr", 5)) : t \in {"lead", "purchase"}}
        \cup {Entry("notmap", None, Val("None", 0))}
MoneyEntries == {Entry("map", t, Val("decstr", 1250)) : t \in {"purchase", "omni_purchase"}}
FieldsOver(entries) ==
    {Actions("list", xs) : xs \in SeqUpTo(entries, MaxActions)}
        \cup {Actions("absent", <<>>)}
RawCampaigns ==
    [campaign_id : {"a"},
     impressions : {Val("absent", 0), Val("text", 0), Val("intstr", 0), Val("intstr", 1000)},
     clicks : {Val("absent", 0), Val("intstr", 0), Val("intstr", 50), Val("int", -3)},
     spend : {Val("absent", 0), Val("None", 0), Val("intstr", 100), Val("decstr", 10000),
              Val("decstr", -500)},
     actions : FieldsOver(CountEntries),
     action_values : FieldsOver(MoneyEntries)]
MetricsInputs == [campaign : RawCampaigns]

ApplyCalculateMetrics == Returns("calculate_metrics", calculate_metrics(input.campaign))
NextMetrics == ApplyCalculateMetrics
SpecMetrics == InitCall(MetricsInputs) /\ [][NextMetrics]_vars

\* the body of process_data.main: process_campaigns, process_audience_data
\* and calculate_summary, one after the other, on the contents of the raw
\* data file and the lead count
ListedCampaigns ==
    [campaign_id : {"a", "b"},
     impressions : {Val("intstr", 1000)},
     clicks : {Val("intstr", 0), Val("intstr", 50)},
     spend : {Val("decstr", 5000), Val("decstr", 10000)},
     actions : {Actions("absent", <<>>),
                Actions("list", <<Entry("map", "lead", Val("intstr", 5))>>),
                Actions("list", <<Entry("notmap", None, Val("None", 0))>>)},
     action_values : {Actions("absent", <<>>)}]
Segments(labels) ==
    [label : labels, impressions : {Val("intstr", 1000)}, clicks : {Val("intstr", 50)},
     spend : {Val("decstr", 100), Val("decstr", 300)}]
NoAudience == [age |-> <<>>, gender |-> <<>>, region |-> <<>>]
Audiences ==
    [age : SeqUpTo(Segments({"18-24", "25-34"}), MaxSegments),
     gender : SeqUpTo(Segments({"male", "female"}), MaxSegments),
     region : SeqUpTo([label : {"Seoul", None}, impressions : {Val("absent", 0)},
                       clicks : {Val("absent", 0)}, spend : {Val("decstr", 100)}],
                      MaxSegments)]
ProcessInputs ==
    [campaigns : SeqUpTo(ListedCampaigns, MaxCampaigns), audience : {NoAudience},
     notion_leads_count : 0..MaxLeads]
        \cup [campaigns : {<<>>}, audience : Audiences, notion_leads_count : {0}]
\* the parts of processed_data, None until computed
Processed(campaigns, audience, summary) ==
    [campaigns |-> campaigns, audience |-> audience, summary |-> summary]

ApplyProcessCampaigns ==
    /\ output.fn = "none"
    /\ LET r == process_campaigns(input.campaigns)
       IN output' = [fn |-> "process_campaigns",
                     value |-> IF r.exc # None THEN r
                               ELSE Ok(Processed(r.v, None, None))]
    /\ UNCHANGED <<pipeVars, input>>
ApplyProcessAudience ==
    /\ output.fn = "process_campaigns" /\ output.value.exc = None
    /\ output' = [fn |-> "process_audience_data",
                  value |-> Ok(Processed(output.value.v.campaigns,
                                         process_audience_data(input.audience), None))]
    /\ UNCHANGED <<pipeVars, input>>
ApplyCalculateSummary ==
    /\ output.fn = "process_audience_data"
    /\ output' = [fn |-> "calculate_summary",
                  value |-> Ok(Processed(output.value.v.campaigns,
                                         output.value.v.audience,
                                         calculate_summary(output.value.v.campaigns,
                                                           input.notion_leads_count)))]
    /\ UNCHANGED <<pipeVars, input>>
NextProcess == ApplyProcessCampaigns \/ ApplyProcessAudience \/ ApplyCalculateSummary
SpecProcess == InitCall(ProcessInputs) /\ [][NextProcess]_vars
\* send_to_notion.create_page_content reaches create_insights_blocks(data)
\* with the report process_data.main has just assembled
ApplyInsightsToReport ==
    /\ output.fn = "calculate_summary"
    /\ output' = [fn |-> "create_insights_blocks",
                  value |-> create_insights_blocks(output.value.v),
                  data |-> output.value.v]
    /\ UNCHANGED <<pipeVars, input>>
NextReport == NextProcess \/ ApplyInsightsToReport
SpecReport == InitCall(ProcessInputs) /\ [][NextReport]_vars

\* processed reports handed to the insight rules
ProcessedSegments(labels, spends) ==
    [label : labels, impressions : {1000}, clicks : {50}, spend : spends]
InsightInputs ==
    [summary : [avg_ctr : {50, 300, 600},
                avg_cpa : {0, 15000},
                total_conversions : {0, 1},
                total_spend : {0, 100000}],
     audience : [age : SeqUpTo(ProcessedSegments({"25-34"}, {0, 10000}), MaxSegments),
                 gender : SeqUpTo(ProcessedSegments({"male", "female"}, {0, 60000})
                                      \cup ProcessedSegments({"female"}, {50000}),
                                  MaxSegments),
                 region : SeqUpTo(ProcessedSegments({"Seoul"}, {30000, 60000}),
                                  MaxSegments)]]
ApplyCreateInsightsBlocks ==
    Returns("create_insights_blocks", create_insights_blocks(input))
NextInsights == ApplyCreateInsightsBlocks
SpecInsights == InitCall(InsightInputs) /\ [][NextInsights]_vars
SpecSerial == InitSerial /\ [][Next]_vars

\* processed reports handed to create_page_content: n campaigns in
\* descending order of spend, named by their rank
MaxListed == 11
RankedCampaigns(n, unit) ==
    [k \in 1..n |->
        [campaign_name |-> ToString(k), spend |-> (MaxListed + 2 - k) * unit,
         impressions |-> 1000, clicks |-> 50, cpc |-> 2 * (MaxListed + 2 - k),
         ctr |-> 500, conversions |-> [total |-> 0], cpa |-> 0]]
ContentInputs ==
    {Processed(campaigns, audience, summary) :
        campaigns \in {RankedCampaigns(n, unit) : n \in 0..MaxListed, unit \in {100, 250}},
        audience \in [age : SeqUpTo(ProcessedSegments({"25-34"}, {10000}), 1),
                      gender : {<<>>} \cup
                               ProcessedSegments({"male"}, {60000})
                                   \X ProcessedSegments({"female", "unknown"}, {50000}),
                      region : SeqUpTo(ProcessedSegments({"Seoul"}, {60000}), 1)],
        summary \in [total_spend : {0, 100000}, total_impressions : {1000},
                     total_clicks : {50}, avg_cpc : {200}, avg_ctr : {300, 600},
                     total_conversions : {1}, avg_cpa : {0}]}
ApplyCreatePageContent == Returns("create_page_content", page_blocks(input))
NextContent == ApplyCreatePageContent
SpecContent == InitCall(ContentInputs) /\ [][NextContent]_vars

\* serial runs over a database in which two overlapping runs of the first
\* day have each created a document for that day's key, next to the
\* document of the day before
ReportOf(d, n) == [date_range |-> get_date_range(d), total_conversions |-> n]
DocumentOf(data) ==
    [title |-> create_page_properties(data).title,
     properties |-> create_page_properties(data),
     children |-> create_page_content(data)]
InitDuplicates ==
    /\ today = StartDay
    /\ rawFiles = <<>> /\ leadsFiles = <<>> /\ procFiles = <<>>
    /\ store = <<DocumentOf(ReportOf(StartDay - 1, 0)),
                 DocumentOf(ReportOf(StartDay, 0)),
                 DocumentOf(ReportOf(StartDay, 1))>>
    /\ pc = [p \in Procs |-> "idle"]
    /\ step = [p \in Procs |-> 0]
    /\ attempt = [p \in Procs |-> 0]
    /\ local = [p \in Procs |-> NoLocal]
    /\ exitStatus = [p \in Procs |-> None]
    /\ hist = [p \in Procs |-> NoHist]
    /\ runs = 0
    /\ overlap = FALSE /\ runOverlap = FALSE /\ pubLog = <<>>
    /\ serial = TRUE /\ env = AllVars /\ input = NoCall /\ output = NoCall
SpecDuplicates == InitDuplicates /\ [][Next]_vars

\* serial runs in which every call a run makes returns or raises: a run that
\* can take a step eventually takes one (the passing of days and the start
\* of a new run are under no such obligation)
RunStep(p) ==
    \/ Validate(p) \/ StepEnter(p) \/ StepImportFails(p) \/ ScriptFails(p)
    \/ FetchAds(p) \/ FetchConversions(p) \/ Process(p) \/ PublishLoad(p)
    \/ Lookup(p) \/ UpdateProps(p) \/ AppendBlocks(p) \/ CreatePage(p)
    \/ Notify(p) \/ NotifyFails(p)
NextRun == \E p \in Procs : Start(p) \/ RunStep(p)
SpecCallsReturn ==
    InitSerial /\ [][NextRun]_vars /\ \A p \in Procs : WF_<<pc, attempt>>(RunStep(p))

\* --------------------------------- retry_on_failure for any max_retries
\* The wrapper is called with max_retries = input.max_retries around a func
\* whose k-th call ends as input.outcomes[k]: "ok" (it returns k) or the
\* class of the exception it raises.  output is the wrapper's frame: the
\* loop variable, the calls and sleeps made so far in order, and how the
\* wrapper ended.
MaxRetriesArg == 3
RetryInputs ==
    [max_retries : 1..MaxRetriesArg,
     outcomes : [1..(MaxRetriesArg + 1) -> {"ok", "Exception", "SystemExit"}]]
\* `for attempt in range(1, max_retries + 1)`: the first iteration
RetryBegin ==
    /\ output.fn = "none"
    /\ output' = [fn |-> "retry_on_failure", attempt |-> 1, trace |-> <<>>,
                  status |-> IF 1 <= input.max_retries THEN "loop" ELSE "returned",
                  value |-> Ok(None)]
    /\ UNCHANGED <<pipeVars, input>>
\* `result = func()` and what follows it in the iteration
RetryCall ==
    /\ output.fn = "retry_on_failure" /\ output.status = "loop"
    /\ LET a == output.attempt
           r == input.outcomes[a]
           o == retry_except(a, input.max_retries, r)
           called == [output EXCEPT !.trace = Append(@, "call")]
       IN output' =
            IF r = "ok" THEN [called EXCEPT !.status = "returned", !.value = Ok(a)]
            ELSE IF o = "sleep" THEN [called EXCEPT !.status = "sleeping"]
            ELSE [called EXCEPT !.status = "raised", !.value = Raise(r)]
    /\ UNCHANGED <<pipeVars, input>>
\* `time.sleep(retry_interval)`, then the next iteration
RetrySleep ==
    /\ output.fn = "retry_on_failure" /\ output.status = "sleeping"
    /\ output' = [output EXCEPT !.trace = Append(@, "sleep"),
                                !.attempt = @ + 1,
                                !.status = "loop"]
    /\ UNCHANGED <<pipeVars, input>>
NextRetry == RetryBegin \/ RetryCall \/ RetrySleep
SpecRetry == InitCall(RetryInputs) /\ [][NextRetry]_vars

TypeOK ==
    /\ today \in StartDay..MaxDay
    /\ env \in EnvChoices
    /\ runs \in 0..MaxRuns
    /\ Len(store) <= MaxRuns
    /\ \A p \in Procs : attempt[p] \in 0..max_retries /\ step[p] \in 0..NumSteps

\* ================================================================ claims
Titles == {store[i].title : i \in 1..Len(store)}
\* the completed publishes that wrote the key t / the document id
PublishesOfKey(t) == {k \in 1..Len(pubLog) : pubLog[k].title = t}
PublishesOfDoc(i) == {k \in 1..Len(pubLog) : pubLog[k].id = i}

\* C1: as long as create_or_update_page invocations have not overlapped, the
\* database holds at most one document per title, and a publisher about to
\* create is one whose lookup found no document.
C1_AtMostOnePerKey ==
    ~overlap =>
        /\ \A t \in Titles : CountKey(store, t) <= 1
        /\ \A p \in Procs : pc[p] = "create" =>
              /\ local[p].existing = NoPage
              /\ CountKey(store, week_title(local[p].data.date_range)) = 0
\* two publishes of one key have completed one after the other
C1_Witness ==
    /\ ~overlap
    /\ Len(pubLog) >= 2
    /\ pubLog[1].title = pubLog[2].title
    /\ CountKey(store, pubLog[1].title) = 1

\* C2: with non-overlapping invocations starting from an empty database, the
\* first completed publish of a key took the create branch, every later one
\* the update branch, and the key has exactly one document.
C2_Idempotent ==
    ~overlap =>
        \A k \in 1..Len(pubLog) :
            /\ pubLog[k].branch =
                  IF \E j \in 1..(k - 1) : pubLog[j].title = pubLog[k].title
                  THEN "update" ELSE "create"
            /\ CountKey(store, pubLog[k].title) = 1
\* the same (key, data) was published twice: create, then update
C2_Witness ==
    /\ ~overlap
    /\ Len(pubLog) = 2
    /\ pubLog[1].title = pubLog[2].title
    /\ pubLog[1].leads = pubLog[2].leads
    /\ pubLog[1].branch = "create" /\ pubLog[2].branch = "update"
    /\ Len(store) = 1

\* C3: nothing guards the create: a publisher whose lookup found nothing
\* inserts a new document titled with its key whatever the database holds by
\* then, so the database can come to hold two documents with one title.
C3_CreateUnguarded ==
    [][\A p \in Procs :
          (pc[p] = "create" /\ pc'[p] # "create" /\ pc'[p] # "done") =>
              /\ Len(store') = Len(store) + 1
              /\ store'[Len(store')].title = week_title(local[p].data.date_range)]_vars
\* both publishers looked up before either created: two documents, one key
C3_Witness ==
    /\ overlap
    /\ Len(store) = 2
    /\ store[1].title = store[2].title
    /\ Len(pubLog) = 2
    /\ pubLog[1].branch = "create" /\ pubLog[2].branch = "create"

\* C4: the property update overwrites the document's properties and leaves
\* every content block alone; the append puts the new block set after the
\* existing blocks of that document and changes nothing else; so a document
\* holds as many block sets as publishes have completed on it, which without
\* overlap is the number of completed publishes of its key.
UpdateStep(p) == pc[p] = "update" /\ pc'[p] = "append"
AppendStep(p) == pc[p] = "append" /\ pc'[p] \notin {"append", "done"}
C4_UpdateAppends ==
    /\ [](\A i \in 1..Len(store) :
              /\ Len(store[i].children) = Cardinality(PublishesOfDoc(i))
              /\ ~overlap =>
                    Len(store[i].children) = Cardinality(PublishesOfKey(store[i].title)))
    /\ [][\A p \in Procs :
            /\ UpdateStep(p) =>
                 /\ Len(store') = Len(store)
                 /\ store'[local[p].existing].properties = create_page_properties(local[p].data)
                 /\ \A i \in 1..Len(store) : store'[i].children = store[i].children
            /\ AppendStep(p) =>
                 /\ Len(store') = Len(store)
                 /\ store'[local[p].existing].children =
                       store[local[p].existing].children \o create_page_content(local[p].data)
                 /\ \A i \in 1..Len(store) :
                       /\ store'[i].properties = store[i].properties
                       /\ i # local[p].existing => store'[i] = store[i]]_vars
\* a document was created and then updated with different data: new
\* properties, both block sets in publishing order
C4_Witness ==
    /\ ~overlap
    /\ Len(pubLog) = 2
    /\ pubLog[2].branch = "update" /\ pubLog[1].leads # pubLog[2].leads
    /\ Len(store) = 1
    /\ Len(store[1].children) = 2
    /\ store[1].children[1].conversions = pubLog[1].leads
    /\ store[1].children[2].conversions = pubLog[2].leads
    /\ store[1].properties.total_conversions = pubLog[2].leads

\* C5: of two successful runs started in the same week with the same lead
\* count, one after the other, the second updates the document the first
\* wrote (one document for the week, grown by one block set).
C5_SameWeekOneDocument ==
    serial =>
        \A i, j \in 1..Len(pubLog) :
            (/\ i < j
             /\ WeekOf(pubLog[i].day) = WeekOf(pubLog[j].day)
             /\ pubLog[i].leads = pubLog[j].leads)
            => /\ pubLog[j].branch = "update"
               /\ pubLog[j].id = pubLog[i].id
               /\ Len(store[pubLog[i].id].children) >= 2

\* C6: within a run a step function is called only when every earlier step
\* has returned normally, and at most one step is in progress at a time.
C6_StepsInOrder ==
    \A p \in Procs :
        /\ \A s \in hist[p].attempted : \A t \in 1..(s - 1) : t \in hist[p].completed
        /\ hist[p].completed \subseteq hist[p].attempted
        /\ Cardinality(hist[p].active) <= 1
        /\ hist[p].active \subseteq {step[p]}
\* a run went through all four steps, retrying one of them on the way
C6_Witness ==
    \E p \in Procs :
        /\ pc[p] = "done" /\ exitStatus[p] = 0
        /\ hist[p].completed = Steps
        /\ hist[p].calls > 1

\* C7: a step whose script main() failed, and whose failure ended the run,
\* had been attempted max_retries times.
C7_MainFailureRetried ==
    \A p \in Procs :
        (hist[p].failedStep # 0 /\ hist[p].failedIn = "main") => hist[p].calls = max_retries

\* C8: a run that has ended made exactly one notification call: the success
\* message iff all four steps completed, else the failure message.
C8_ExactlyOneNotification ==
    \A p \in Procs :
        pc[p] = "done" =>
            /\ hist[p].notifyCalls = 1
            /\ "SLACK_WEBHOOK_URL" \in env =>
                  \/ hist[p].posted = <<>>
                  \/ hist[p].posted = <<hist[p].completed # Steps>>

\* C9: once a step's failure has left the retry wrapper no other step is
\* called in that run, and the publisher is entered, and the database
\* written, only by a run whose first three steps completed.
C9_FailureAborts ==
    \A p \in Procs :
        /\ hist[p].failedStep # 0 =>
              /\ pc[p] \in {"notify_error", "done"}
              /\ hist[p].attempted = 1..hist[p].failedStep
              /\ hist[p].completed = 1..(hist[p].failedStep - 1)
        /\ (NumSteps \in hist[p].attempted \/ hist[p].writes > 0 \/ pc[p] \in InPublisher)
              => (1..(NumSteps - 1)) \subseteq hist[p].completed
        /\ pc[p] = "done" /\ exitStatus[p] = 0 => hist[p].completed = Steps
\* FetchConversions failed max_retries times; the run ended with nothing
\* processed or published
C9_Witness ==
    \E p \in Procs :
        /\ pc[p] = "done" /\ exitStatus[p] = 1
        /\ hist[p].failedStep = 2 /\ hist[p].calls = max_retries
        /\ hist[p].attempted = {1, 2}
        /\ procFiles = <<>> /\ store = <<>>

\* C10: an exception raised in a step reaches main() as an Exception; the
\* run it ends notifies and returns non-zero; only a run whose four steps
\* completed ends with status 0.
C10_ExceptionsReachMain ==
    \A p \in Procs :
        /\ hist[p].failedStep # 0 => hist[p].failedExc = "Exception"
        /\ (pc[p] = "done" /\ hist[p].failedStep # 0) =>
              hist[p].notifyCalls = 1 /\ exitStatus[p] # 0
        /\ (pc[p] = "done" /\ exitStatus[p] = 0) => hist[p].completed = Steps

\* C11: whatever becomes of the notification (posted, skipped for want of a
\* webhook URL, or failed), a run that made its notification call ends by
\* main's return: status 0 after the success message, 1 after the failure
\* message, and a run whose four steps completed is never turned into a
\* failure by the notification.
C11_NotifyNeverFails ==
    \A p \in Procs :
        /\ (pc[p] = "done" /\ hist[p].notifyCalls > 0) =>
              /\ hist[p].notifyCalls = 1
              /\ exitStatus[p] = IF hist[p].completed = Steps THEN 0 ELSE 1
        /\ (pc[p] = "done" /\ hist[p].completed = Steps) => exitStatus[p] = 0
\* the success message could not be posted, and the run still returned 0
C11_Witness ==
    \E p \in Procs :
        /\ pc[p] = "done" /\ exitStatus[p] = 0
        /\ "SLACK_WEBHOOK_URL" \in env
        /\ hist[p].notifyCalls = 1 /\ hist[p].posted = <<>>

\* C12: a missing credential or identifier ends the run in failure without a
\* retry: when validate_environment finds one missing no step is called at
\* all; when a script's own check finds one missing that script's main() is
\* entered once in the run, the step never completes and the run fails.
C12_ConfigErrorFatal ==
    \A p \in Procs :
        /\ missing_vars(env) # {} =>
              /\ hist[p].attempted = {}
              /\ pc[p] = "done" => (exitStatus[p] = 1 /\ hist[p].notifyCalls = 1)
        /\ \A s \in Steps :
              ~(step_vars(s) \subseteq env) =>
                  /\ s \notin hist[p].completed
                  /\ (step[p] = s /\ s \in hist[p].attempted) => hist[p].mains <= 1
                  /\ pc[p] = "done" => exitStatus[p] = 1
\* NOTION_LEADS_DATABASE_ID is not set: FetchConversions' main() was entered
\* once, the run is over with status 1
C12_Witness ==
    \E p \in Procs :
        /\ "NOTION_LEADS_DATABASE_ID" \notin env
        /\ pc[p] = "done" /\ exitStatus[p] = 1
        /\ hist[p].failedStep = 2 /\ hist[p].failedIn = "main"
        /\ hist[p].mains = 1

\* a process leaves the body of its script's main() by the step shown
LeavesMain(p, s) == pc[p] = "main" /\ step[p] = s /\ pc'[p] # "main"
Fatal(p) == pc'[p] = "done" /\ exitStatus'[p] = 1 /\ hist'[p].mains = 1

\* C13 as stated: a step that finds no raw ads file, no leads file or no
\* processed-report file fails fatally, without a retry.
C13_AbsentArtifactFatal ==
    [][\A p \in Procs :
          /\ (LeavesMain(p, 3) /\ (rawFiles = <<>> \/ leadsFiles = <<>>)) => Fatal(p)
          /\ (LeavesMain(p, 4) /\ procFiles = <<>>) => Fatal(p)]_vars

\* C13 as amended: Process without a raw ads file and Publish without a
\* processed-report file fail fatally, without a retry; Process without a
\* leads file goes on with a lead count of 0.
C13_AbsentArtifact ==
    [][\A p \in Procs :
          /\ (LeavesMain(p, 3) /\ rawFiles = <<>>) => Fatal(p)
          /\ (LeavesMain(p, 4) /\ procFiles = <<>>) => Fatal(p)
          /\ (LeavesMain(p, 3) /\ rawFiles # <<>> /\ leadsFiles = <<>> /\ pc'[p] # "done")
                => /\ 3 \in hist'[p].completed
                   /\ LatestFile(procFiles').total_conversions = 0]_vars
\* Process ran without a raw ads file: its main() was entered once and the
\* run is over, nothing processed
C13_Witness ==
    \E p \in Procs :
        /\ pc[p] = "done" /\ exitStatus[p] = 1
        /\ hist[p].failedStep = 3 /\ hist[p].failedIn = "main" /\ hist[p].mains = 1
        /\ rawFiles = <<>> /\ leadsFiles # <<>> /\ procFiles = <<>>

\* the number a numeric value stands for, as an integer and in hundredths
IntegerOf(x) == IF x.kind \in {"int", "intstr"} THEN x.v ELSE Trunc(x.v)
HundredthsOf(x) == IF x.kind \in {"int", "intstr"} THEN x.v * 100 ELSE x.v

\* C18 as stated: safe_int and safe_float return the default for every
\* non-numeric, empty or None input and the numeric value of every numeric
\* input (for safe_int, its integer part).
C18_CoercionTotal ==
    /\ output.fn = "safe_int" =>
          output.value = IF Numeric(input.value) THEN IntegerOf(input.value)
                         ELSE input.default
    /\ output.fn = "safe_float" =>
          output.value = IF Numeric(input.value) THEN HundredthsOf(input.value)
                         ELSE input.default * 100

\* the entries of a list the claim counts as well formed for a tag
WellFormed(actions, action_type) ==
    IF actions.kind # "list" THEN <<>>
    ELSE SelectSeq(actions.items,
                   LAMBDA a : a.kind = "map" /\ a.action_type = action_type
                                /\ Numeric(Get(a.value)))
\* C17 as stated: the extractors never raise; they return the value of the
\* first matching entry, skipping entries that are no mapping or hold no
\* number, and the zero default when there is none or the argument is no list.
C17_ExtractorsNeverRaise ==
    LET good == WellFormed(input.actions, input.action_type)
    IN /\ output.fn \in {"extract_actions", "extract_action_values"} =>
             output.value.exc = None
       /\ output.fn = "extract_actions" =>
             output.value.v = IF good = <<>> THEN 0 ELSE safe_int(Get(Head(good).value), 0)
       /\ output.fn = "extract_action_values" =>
             output.value.v = IF good = <<>> THEN 0 ELSE safe_float(Get(Head(good).value), 0)

\* q is n / d to the nearest hundredth
Nearest(q, n, d) == 2 * Abs(q * d - n) <= d
\* the formulas of the metrics, read off a CanonicalMetrics record m
MetricsFormulas(m) ==
    /\ m.conversions.total = m.conversions.purchase + m.conversions.lead
    /\ IF m.clicks > 0 THEN Nearest(m.cpc, m.spend, m.clicks) ELSE m.cpc = 0
    /\ IF m.impressions > 0 THEN Nearest(m.ctr, m.clicks * 100 * 100, m.impressions)
       ELSE m.ctr = 0
    /\ IF m.conversions.total > 0 THEN Nearest(m.cpa, m.spend, m.conversions.total)
       ELSE m.cpa = 0
    /\ IF m.spend > 0 THEN Nearest(m.roas, m.conversion_value.total * 100, m.spend)
       ELSE m.roas = 0
\* C15 as stated: for every campaign record calculate_metrics computes
\* total_conversions = purchase + lead, cpc = spend/clicks, ctr =
\* clicks/impressions*100, cpa = spend/total_conversions and roas =
\* total_conversion_value/spend, each 0 when its denominator is not positive.
C15_MetricsComputed ==
    output.fn = "calculate_metrics" =>
        /\ output.value.exc = None
        /\ MetricsFormulas(output.value.v)

\* C14 as stated: for any raw campaign record calculate_metrics raises no
\* error and its ratios cpc, ctr, cpa and roas are >= 0, and 0 whenever
\* their denominator is zero.
C14_RatiosNonNegative ==
    output.fn = "calculate_metrics" =>
        /\ output.value.exc = None
        /\ LET m == output.value.v
           IN /\ m.cpc >= 0 /\ m.ctr >= 0 /\ m.cpa >= 0 /\ m.roas >= 0
              /\ m.clicks = 0 => m.cpc = 0
              /\ m.impressions = 0 => m.ctr = 0
              /\ m.conversions.total = 0 => m.cpa = 0
              /\ m.spend = 0 => m.roas = 0

\* C16: in the summary total_conversions is the lead count given to
\* calculate_summary, whatever the campaigns' conversions.total are;
\* total_conversion_value is that count times avg_lead_value, avg_cpa and
\* roas are computed from these two, total_spend / total_impressions /
\* total_clicks are the sums over the campaigns and campaign_count their number.
C16_SummaryReconciled ==
    output.fn = "calculate_summary" =>
        LET s == output.value.v.summary
            cs == output.value.v.campaigns
            leads == input.notion_leads_count
        IN /\ s.total_conversions = leads
           /\ s.total_conversion_value = leads * avg_lead_value * 100
           /\ IF leads > 0 THEN Nearest(s.avg_cpa, s.total_spend, leads)
              ELSE s.avg_cpa = 0
           /\ IF s.total_spend > 0
              THEN Nearest(s.roas, s.total_conversion_value * 100, s.total_spend)
              ELSE s.roas = 0
           /\ s.total_spend = Sum(cs, "spend")
           /\ s.total_impressions = Sum(cs, "impressions")
           /\ s.total_clicks = Sum(cs, "clicks")
           /\ s.campaign_count = Len(input.campaigns)
\* a summary of two campaigns whose conversions add up to 10 while the
\* lead count is 1
C16_Witness ==
    /\ output.fn = "calculate_summary"
    /\ Len(input.campaigns) = 2 /\ input.notion_leads_count = 1
    /\ output.value.v.campaigns[1].conversions.total
           + output.value.v.campaigns[2].conversions.total = 10
    /\ output.value.v.summary.total_conversions = 1
    /\ output.value.v.summary.avg_cpa = 15000

\* out holds the records of in, by non-increasing spend, records of equal
\* spend in the order they have in in
StableSorted(out, in) ==
    /\ Len(out) = Len(in)
    /\ \A i, j \in 1..Len(out) : i < j => out[i].spend >= out[j].spend
    /\ \E pi \in [1..Len(out) -> 1..Len(in)] :
          /\ \A i, j \in 1..Len(out) : i # j => pi[i] # pi[j]
          /\ \A i \in 1..Len(out) : out[i] = in[pi[i]]
          /\ \A i, j \in 1..Len(out) :
                (i < j /\ out[i].spend = out[j].spend) => pi[i] < pi[j]
\* C19: the processed campaign list and each audience dimension list is
\* its own input sorted by non-increasing spend, stable under ties.
C19_SortedStable ==
    /\ (output.fn = "process_campaigns" /\ output.value.exc = None) =>
          StableSorted(output.value.v.campaigns,
                       [i \in 1..Len(input.campaigns) |->
                           calculate_metrics(input.campaigns[i]).v])
    /\ output.fn = "process_audience_data" =>
          \A d \in {"age", "gender", "region"} :
              StableSorted(output.value.v.audience[d],
                           [i \in 1..Len(input.audience[d]) |->
                               [label |-> IF input.audience[d][i].label = None
                                          THEN "Unknown" ELSE input.audience[d][i].label,
                                impressions |-> safe_int(Get(input.audience[d][i].impressions), 0),
                                clicks |-> safe_int(Get(input.audience[d][i].clicks), 0),
                                spend |-> safe_float(Get(input.audience[d][i].spend), 0)]])
\* age arrived tied (kept in order), gender arrived ascending (reversed),
\* region arrived tied with an unnamed segment first
C19_Witness ==
    /\ output.fn = "process_audience_data"
    /\ Len(input.audience.age) = 2 /\ Len(input.audience.gender) = 2
    /\ Len(input.audience.region) = 2
    /\ input.audience.age[1].label = "25-34" /\ input.audience.age[2].label = "18-24"
    /\ input.audience.age[1].spend = input.audience.age[2].spend
    /\ input.audience.gender[1].spend.v < input.audience.gender[2].spend.v
    /\ input.audience.region[1].label = None /\ input.audience.region[2].label = "Seoul"
    /\ output.value.v.audience.age[1].label = "25-34"
    /\ output.value.v.audience.gender[1].spend = 300
    /\ output.value.v.audience.region[1].label = "Unknown"

\* the insights the six rules of the claim give; for the age rule, whose
\* threshold the claim leaves open, the lowest one: a share above 0
ExpectedInsights(data) ==
    LET summary == data.summary
        age_segments == SortBySpend(data.audience.age)
        region_segments == SortBySpend(data.audience.region)
        male == SelectSeq(data.audience.gender, LAMBDA g : g.label = "male")
        female == SelectSeq(data.audience.gender, LAMBDA g : g.label = "female")
        Fires(cond, rule) == IF cond THEN <<rule>> ELSE <<>>
    IN Fires(summary.avg_ctr > 500, "ctr_high")
       \o Fires(summary.avg_ctr < 100, "ctr_low")
       \o Fires(summary.total_conversions = 0, "no_conversions")
       \o Fires(age_segments # <<>> /\ age_segments[1].spend > 0, "age_concentration")
       \o Fires(/\ male # <<>> /\ female # <<>>
                /\ Abs(Head(male).spend - Head(female).spend) * 100
                      > 30 * Max(Head(male).spend, Head(female).spend),
                "gender_skew")
       \o Fires(/\ region_segments # <<>>
                /\ region_segments[1].spend * 100 > 50 * summary.total_spend,
                "region_concentration")
\* C20 as stated: the insights emitted are those of the rules whose
\* threshold condition holds, in rule order, and nothing else (the code's
\* further rule for a high CPA is left aside).
C20_RulesFireOnThreshold ==
    (output.fn = "create_insights_blocks" /\ output.value.exc = None) =>
        SelectSeq(output.value.v, LAMBDA r : r # "cpa_high") = ExpectedInsights(input)

\* C21: Process and Publish consume the most recently modified matching
\* file of their directory, whoever wrote it: Process the last raw ads file
\* and the last leads file, Publish the last processed-report file.
C21_LatestWins ==
    [][\A p \in Procs :
          /\ (pc[p] = "main" /\ step[p] = 3 /\ 3 \in hist'[p].completed) =>
                LET out == procFiles'[Len(procFiles')].data
                IN /\ out.date_range = rawFiles[Len(rawFiles)].data.date_range
                   /\ out.total_conversions =
                         IF leadsFiles = <<>> THEN 0
                         ELSE leadsFiles[Len(leadsFiles)].data.total_leads
          /\ (pc[p] = "main" /\ step[p] = 4 /\ pc'[p] = "lookup") =>
                local'[p].data = procFiles[Len(procFiles)].data]_vars
\* two overlapping invocations, two different raw files on disk, and both
\* invocations publish the data of the later file
C21_Witness ==
    /\ ~serial
    /\ Len(rawFiles) = 2 /\ rawFiles[1].data # rawFiles[2].data
    /\ \A p \in Procs :
          /\ pc[p] \in InPublisher
          /\ local[p].data.date_range = rawFiles[2].data.date_range

\* the Publish step of p completes
PublishCompletes(p) == 4 \notin hist[p].completed /\ 4 \in hist'[p].completed
\* C22: the lookup decides the branch of a Publish invocation; one that
\* found no document with the title issues one create (full properties and
\* content) and nothing else, one that found a document issues one property
\* update and then one content append on it and no create.
C22_OneOfTwoBranches ==
    [][\A p \in Procs :
          /\ (pc[p] = "lookup" /\ pc'[p] \in {"create", "update"}) =>
                LET found == Matching(store, week_title(local[p].data.date_range))
                IN IF found = {}
                   THEN pc'[p] = "create" /\ local'[p].existing = NoPage
                   ELSE pc'[p] = "update" /\ local'[p].existing \in found
          /\ PublishCompletes(p) =>
                LET ops == Append(local[p].ops, pc[p])
                    id == local[p].existing
                    last == pubLog'[Len(pubLog')]
                IN IF id = NoPage
                   THEN /\ ops = <<"create">>
                        /\ store' = Append(store,
                                           [title |-> week_title(local[p].data.date_range),
                                            properties |-> create_page_properties(local[p].data),
                                            children |-> create_page_content(local[p].data)])
                        /\ last.proc = p /\ last.branch = "create"
                   ELSE /\ ops = <<"update", "append">>
                        /\ Len(store') = Len(store)
                        /\ \A i \in 1..Len(store) : i # id => store'[i] = store[i]
                        /\ store'[id].properties = create_page_properties(local[p].data)
                        /\ last.proc = p /\ last.branch = "update" /\ last.id = id]_vars
\* one invocation has created a document and a later one has updated it
C22_Witness ==
    \E i, j \in 1..Len(pubLog) :
        /\ i < j
        /\ pubLog[i].branch = "create" /\ pubLog[j].branch = "update"
        /\ pubLog[i].id = pubLog[j].id
        /\ Len(store[pubLog[j].id].children) = 2

\* C23: for every max_retries >= 1 the retry wrapper calls the step at
\* least once and at most max_retries times, makes no call after a
\* successful one and returns that call's result, sleeps exactly once
\* between two consecutive calls and never after the last call, and when it
\* raises, raises the exception of its last call.
Calls(t) == Cardinality({i \in 1..Len(t) : t[i] = "call"})
Alternates(t) ==
    \A i \in 1..Len(t) : t[i] = IF i % 2 = 1 THEN "call" ELSE "sleep"
C23_RetryWrapper ==
    (output.fn = "retry_on_failure") =>
        LET t == output.trace
            n == Calls(t)
        IN /\ Alternates(t)
           /\ n <= input.max_retries
           /\ \A k \in 1..(n - 1) : input.outcomes[k] = "Exception"
           /\ (output.status \in {"returned", "raised"}) =>
                 /\ n >= 1
                 /\ t[Len(t)] = "call"
                 /\ IF input.outcomes[n] = "ok"
                    THEN output.status = "returned" /\ output.value = Ok(n)
                    ELSE /\ output.status = "raised"
                         /\ output.value = Raise(input.outcomes[n])
                         /\ input.outcomes[n] = "Exception" => n = input.max_retries
\* all three attempts of a three-attempt wrapper failed, with two sleeps
C23_Witness ==
    /\ output.fn = "retry_on_failure" /\ output.status = "raised"
    /\ input.max_retries = 3
    /\ output.trace = <<"call", "sleep", "call", "sleep", "call">>
    /\ output.value = Raise("Exception")
\* the second attempt succeeded and ended the loop
C23_WitnessSuccess ==
    /\ output.fn = "retry_on_failure" /\ output.status = "returned"
    /\ input.max_retries = 3
    /\ output.trace = <<"call", "sleep", "call">>
    /\ output.value = Ok(2)

\* C24: the page content is, in this order, the summary section, the
\* campaign table, the audience tables for age, gender and region, and the
\* insight section; the campaign table has one row for each of the first
\* min(10, n) campaigns of the spend-sorted list, in the list's order, and
\* no row for any other campaign.
Min(a, b) == IF a <= b THEN a ELSE b
C24_ContentOrder ==
    (output.fn = "create_page_content" /\ output.value.exc = None) =>
        LET b == output.value.v
            campaigns == input.campaigns
            n == Len(campaigns)
            rows == b[4].rows
            shown == {rows[i].key : i \in 2..Len(rows)}
        IN /\ Len(b) >= 12
           /\ [i \in 1..12 |-> <<b[i].type, b[i].text>>] =
                 <<(<<"heading_2", "summary">>), (<<"table", "">>),
                   (<<"heading_2", "campaigns">>), (<<"table", "">>),
                   (<<"heading_2", "audience">>),
                   (<<"heading_3", "age">>), (<<"table", "">>),
                   (<<"heading_3", "gender">>), (<<"table", "">>),
                   (<<"heading_3", "region">>), (<<"table", "">>),
                   (<<"heading_2", "insights">>)>>
           /\ \A i \in 13..Len(b) : b[i].type = "toggle"
           /\ b[7].rows[1].key = "age" /\ Len(b[7].rows) = 1 + Len(input.audience.age)
           /\ b[9].rows[1].key = "gender"
           /\ Len(b[9].rows) = 1 + Len(input.audience.gender)
           /\ b[11].rows[1].key = "region"
           /\ Len(b[11].rows) = 1 + Len(input.audience.region)
           /\ rows[1].header
           /\ Len(rows) = 1 + Min(10, n)
           /\ \A i \in 1..Min(10, n) :
                 /\ ~rows[i + 1].header
                 /\ rows[i + 1].key = campaigns[i].campaign_name
                 /\ rows[i + 1].cells[1] = campaigns[i].spend
           /\ \A i \in 11..n : campaigns[i].campaign_name \notin shown
\* eleven campaigns were given and the table shows the first ten
C24_Witness ==
    /\ output.fn = "create_page_content" /\ output.value.exc = None
    /\ Len(input.campaigns) = 11
    /\ Len(output.value.v[4].rows) = 11
    /\ Len(output.value.v) > 12

\* C25: building the insight blocks never raises for a summary and an
\* audience breakdown that Process produced, a period with total_spend = 0
\* and age or region segments included.
C25_InsightsNeverRaise ==
    (output.fn = "create_insights_blocks") => output.value.exc = None

\* C26: the title Publish writes into a document's properties, on create
\* and on update, is the title its lookup searches for: every document is
\* found by the lookup for the date range its properties carry, and no
\* step changes the title of an existing document.
C26_TitleIsLookupKey ==
    [][/\ \A i \in 1..Len(store') :
             /\ store'[i].title = store'[i].properties.title
             /\ store'[i].title = week_title(store'[i].properties.week)
             /\ check_existing_report(store', store'[i].properties.week) # NoPage
       /\ \A i \in 1..Len(store) : store'[i].title = store[i].title
       /\ \A p \in Procs :
             (pc[p] \in {"create", "update"} /\ store' # store) =>
                 LET id == IF pc[p] = "create" THEN Len(store') ELSE local[p].existing
                 IN /\ store'[id].properties = create_page_properties(local[p].data)
                    /\ store'[id].title = week_title(local[p].data.date_range)]_vars
\* a document created by one run was found and given new properties by a
\* later run for the same date range
C26_Witness ==
    \E i, j \in 1..Len(pubLog) :
        /\ i < j
        /\ pubLog[i].branch = "create" /\ pubLog[j].branch = "update"
        /\ pubLog[i].id = pubLog[j].id
        /\ pubLog[i].leads # pubLog[j].leads
        /\ store[pubLog[j].id].properties.total_conversions = pubLog[j].leads
        /\ store[pubLog[j].id].title = pubLog[i].title

\* C27: a failure inside Publish, at the lookup, the create, the property
\* update or the content append, leaves at most one document for the key
\* and removes no content; a failed lookup has written nothing; a failure
\* of the append after the property update leaves the document with the
\* new properties and the content it had.
IsPrefix(s, t) == Len(s) <= Len(t) /\ SubSeq(t, 1, Len(s)) = s
PublishFails(p) ==
    pc[p] \in InPublisher /\ pc'[p] = "done" /\ hist'[p].failedStep = 4
C27_FailedPublish ==
    [][/\ \A i \in 1..Len(store) :
             Len(store') >= Len(store) /\ IsPrefix(store[i].children, store'[i].children)
       /\ \A p \in Procs :
             /\ (pc[p] = "update" /\ pc'[p] = "append") =>
                   /\ Len(store') = Len(store)
                   /\ \A i \in 1..Len(store) :
                         /\ store'[i].children = store[i].children
                         /\ i # local[p].existing => store'[i] = store[i]
             /\ PublishFails(p) =>
                   /\ store' = store
                   /\ \A i \in 1..Len(store) : CountKey(store, store[i].title) = 1
                   /\ pc[p] = "lookup" => local[p].ops = <<>> /\ hist[p].writes = 0
                   /\ pc[p] = "create" => local[p].ops = <<>> /\ hist[p].writes = 0
                   /\ pc[p] = "update" => local[p].ops = <<>> /\ hist[p].writes = 0
                   /\ pc[p] = "append" =>
                         /\ local[p].ops = <<"update">>
                         /\ store'[local[p].existing].properties =
                               create_page_properties(local[p].data)]_vars
\* the append failed after the property update: the document shows the new
\* lead count in its properties and only the old report in its content
C27_Witness ==
    \E p \in Procs : \E i \in 1..Len(store) :
        /\ pc[p] = "done" /\ hist[p].failedStep = 4 /\ hist[p].failedIn = "main"
        /\ hist[p].writes = 1
        /\ Len(store[i].children) = 1
        /\ store[i].children[1].conversions # store[i].properties.total_conversions

\* C28: Publish never deletes a document, so the number of documents of a
\* key never decreases; when several documents carry the key, an update
\* touches only the first document the lookup returned and leaves every
\* other document of that key as it was.
C28_OnlyFirstUpdated ==
    [][/\ Len(store') >= Len(store)
       /\ \A i \in 1..Len(store) :
             /\ CountKey(store', store[i].title) >= CountKey(store, store[i].title)
             /\ store'[i].title = store[i].title
       /\ \A p \in Procs :
             (pc[p] \in {"update", "append"} /\ store' # store) =>
                 LET id == local[p].existing
                     same == Matching(store, week_title(local[p].data.date_range))
                 IN /\ id \in same /\ \A j \in same : id <= j
                    /\ Len(store') = Len(store)
                    /\ \A i \in 1..Len(store) : i # id => store'[i] = store[i]]_vars
\* of two documents with the same key the first was updated and given a
\* second report, the other is as the race left it
C28_Witness ==
    /\ Len(store) >= 3
    /\ store[2].title = store[3].title
    /\ store[3] = DocumentOf(ReportOf(StartDay, 1))
    /\ Len(store[2].children) = 2
    /\ \E k \in 1..Len(pubLog) : pubLog[k].branch = "update" /\ pubLog[k].id = 2

\* C29: within one run the date range FetchConversions counts leads for is
\* the date range FetchAds stored in the raw data of that run.
C29_SameDateRange ==
    [][\A p \in Procs :
          (pc[p] = "main" /\ step[p] = 2 /\ 2 \in hist'[p].completed) =>
              /\ 1 \in hist[p].completed
              /\ local[p].date_range = rawFiles[Len(rawFiles)].data.date_range]_vars

\* C30: when every step call and notification call returns or raises, every
\* run reaches an end state with exit status 0 or 1; each of the four steps
\* has one retry loop, entered in step order and making at most max_retries
\* calls, which is at most 4 * max_retries step attempts in the run; and a
\* run in its end state attempts nothing more (only a new invocation starts
\* again).
StepCalled(p) == hist'[p].calls # hist[p].calls \/ hist'[p].attempted # hist[p].attempted
C30_RunTerminates ==
    /\ \A p \in Procs : Running(p) ~> (pc[p] = "done" /\ exitStatus[p] \in {0, 1})
    /\ [][\A p \in Procs :
             /\ (Running(p) /\ StepCalled(p)) =>
                   /\ hist'[p].calls \in 1..max_retries
                   /\ hist'[p].attempted \subseteq 1..NumSteps
                   /\ \A s \in hist[p].attempted : s <= step[p]
                   /\ IF step[p] \in hist[p].attempted
                      THEN hist'[p].calls = hist[p].calls + 1
                      ELSE hist'[p].calls = 1
             /\ (pc[p] = "done" /\ pc'[p] = "done") =>
                   hist'[p] = hist[p] /\ exitStatus'[p] = exitStatus[p]
             /\ (pc[p] = "done" /\ pc'[p] # "done") =>
                   pc'[p] = "validate" /\ runs' = runs + 1]_vars
\* a run ended in failure after three steps succeeded and the fourth was
\* called max_retries times
C30_Witness ==
    \E p \in Procs :
        /\ pc[p] = "done" /\ exitStatus[p] = 1
        /\ hist[p].attempted = 1..NumSteps
        /\ hist[p].completed = 1..(NumSteps - 1)
        /\ hist[p].calls = max_retries

====
